---- MODULE Spec2Model ----
(***************************************************************************)
(* Four batch jobs of the marketing-data orchestration repository:         *)
(*   MintegralSitesFetcher.process_and_save   (src/raw_mintegral.py)       *)
(*   UnitySitesFetcher.fetch_and_save         (src/raw_unity.py)           *)
(*   AppsFlyerDataFetcher.process_and_save    (src/raw_af.py)              *)
(*   RuBettersToBigQuery.run                  (src/agg_google_bc.py)       *)
(* Text values are sequences of one-character strings, data frames are     *)
(* sequences of records (pandas keeps row order), tables with a PRIMARY    *)
(* KEY are sets of records, tables without one are sequences of records.   *)
(***************************************************************************)
EXTENDS FiniteSets, Integers, Sequences, TLC

VARIABLES
    \* MintegralSitesFetcher.process_and_save
    mPc,        \* position in process_and_save / fetch_data
    mAcct,      \* which account's fetch_data call is running (1 or 2)
    mPolls,     \* status polls issued by the current fetch_data call (saturating)
    mLast,      \* kind of the last response the current fetch_data call received
    mRet,       \* value returned by the fetch_data call that just returned
    mDf1,       \* df1 of process_and_save
    mDf2,       \* df2 of process_and_save
    raw_mint,   \* table raw_mint (key_network PRIMARY KEY)
    \* UnitySitesFetcher.fetch_and_save
    uPc,        \* position in fetch_and_save
    uRun,       \* runs of the job started so far
    uResp,      \* the response the report endpoint gave this run
    uDf,        \* df of fetch_and_save
    uPrevResp,  \* the response the endpoint gave the previous run
    uSnap,      \* the two tables as the previous run left them
    raw_ru_unity_sites_liga_betboom_pari,   \* table (key_network PRIMARY KEY)
    raw_unity,  \* table raw_unity, created by to_sql (no key)
    \* AppsFlyerDataFetcher.process_and_save
    aPc,        \* position in process_and_save / fetch_data
    aIdx,       \* position of fetch_data's loop in app_ids
    aCombined,  \* df_combined of the running fetch_data call
    aEvents,    \* df_events
    aInstalls,  \* df_installs
    aDf,        \* df_af
    aFailed,    \* application ids a GET of this run answered non-200 for
    raw_af_table,   \* table raw_af_table (no key)
    \* RuBettersToBigQuery.run
    gPc,        \* position in run / fetch_data / save_to_bigquery
    gUnity,     \* df_unity
    gMint,      \* df_mint
    gAf,        \* df_af
    gMerged,    \* merged_df
    gSheet,     \* the data rows of the payout sheet
    gPay,       \* df_pay
    gFinal,     \* df_final
    gTrace,     \* the steps of run executed so far, in order
    gFailed,    \* the step that raised, "none" if none did
    gRun,       \* runs of the merge job started so far
    bq_table    \* the warehouse table self.table_id

varsMint == <<mPc, mAcct, mPolls, mLast, mRet, mDf1, mDf2, raw_mint>>

varsUnity == <<uPc, uRun, uResp, uDf, uPrevResp, uSnap,
               raw_ru_unity_sites_liga_betboom_pari, raw_unity>>

varsAF == <<aPc, aIdx, aCombined, aEvents, aInstalls, aDf, aFailed, raw_af_table>>

varsAgg == <<gPc, gUnity, gMint, gAf, gMerged, gSheet, gPay, gFinal, gTrace, gFailed,
             gRun, bq_table>>

vars == <<varsMint, varsUnity, varsAF, varsAgg>>

----------------------------------------------------------------------------
(* Bounds of the model *)

\* rows the upstream returns to one run of a job, over all its responses
MaxRows == 2
\* status polls counted per fetch_data call (the counter saturates here)
MaxPolls == 2
\* runs of one job the scheduler starts
MaxRuns == 2
\* rows a raw table returns to one read of the merge job
MaxTableRows == 1
\* data rows of the payout sheet
MaxSheetRows == 2
\* rows of a merged frame handed to process_cpa
MaxMergedRows == 1

----------------------------------------------------------------------------
(* Text and dates *)

\* pandas' missing value (NaN / NaT / None) in a text or date column
NaN == <<"NaN">>

\* pandas' missing date (NaT)
NaT == [y |-> 0, m |-> 0, d |-> 0]

UpperLetters ==
    <<"A", "B", "C", "D", "E", "F", "G", "H", "I", "J", "K", "L", "M",
      "N", "O", "P", "Q", "R", "S", "T", "U", "V", "W", "X", "Y", "Z">>

LowerLetters ==
    <<"a", "b", "c", "d", "e", "f", "g", "h", "i", "j", "k", "l", "m",
      "n", "o", "p", "q", "r", "s", "t", "u", "v", "w", "x", "y", "z">>

\* str.lower() / re.IGNORECASE on one character
Lower(c) ==
    IF \E k \in 1..26 : UpperLetters[k] = c
    THEN LowerLetters[CHOOSE k \in 1..26 : UpperLetters[k] = c]
    ELSE c

LowerStr(s) == [i \in 1..Len(s) |-> Lower(s[i])]

\* p occurs in s as a contiguous substring
Contains(s, p) ==
    \E i \in 1..(Len(s) - Len(p) + 1) : SubSeq(s, i, i + Len(p) - 1) = p

\* Series.str.contains(pat, flags=re.IGNORECASE, na=False) on one value;
\* the patterns hold no regex metacharacter
str_contains(s, pat) ==
    IF s = NaN THEN FALSE ELSE Contains(LowerStr(s), LowerStr(pat))

Digits == <<"0", "1", "2", "3", "4", "5", "6", "7", "8", "9">>

IsDigit(c) == \E k \in 1..10 : Digits[k] = c

DigitVal(c) == (CHOOSE k \in 1..10 : Digits[k] = c) - 1

\* pd.to_datetime(x, format='%Y%m%d', errors='coerce'): a date record, or NaT
\* when the text is not eight digits naming a month 1..12 and a day 1..31
to_datetime_Ymd(s) ==
    IF s = NaN \/ Len(s) # 8 \/ \E i \in 1..Len(s) : ~IsDigit(s[i])
    THEN NaT
    ELSE LET yy == 1000 * DigitVal(s[1]) + 100 * DigitVal(s[2])
                   + 10 * DigitVal(s[3]) + DigitVal(s[4])
             mm == 10 * DigitVal(s[5]) + DigitVal(s[6])
             dd == 10 * DigitVal(s[7]) + DigitVal(s[8])
         IN  IF mm \in 1..12 /\ dd \in 1..31 /\ yy >= 1
             THEN [y |-> yy, m |-> mm, d |-> dd]
             ELSE NaT

\* the decimal digit of n at the place p (1, 10, 100, 1000)
DigitAt(n, p) == Digits[((n \div p) % 10) + 1]

\* strftime('%Y-%m-%d') of a date record; NaT formats to NaN
strftime_iso(t) ==
    IF t = NaT THEN NaN
    ELSE <<DigitAt(t.y, 1000), DigitAt(t.y, 100), DigitAt(t.y, 10), DigitAt(t.y, 1),
           "-", DigitAt(t.m, 10), DigitAt(t.m, 1),
           "-", DigitAt(t.d, 10), DigitAt(t.d, 1)>>

\* datetime.today() of the run, and today - timedelta(days=k) within the month
Today == [y |-> 2024, m |-> 1, d |-> 11]

DaysAgo(k) == [Today EXCEPT !.d = Today.d - k]

\* pandas `a + b + c` on text columns: missing if any operand is missing
StrCat3(a, b, c) == IF a = NaN \/ b = NaN \/ c = NaN THEN NaN ELSE a \o b \o c

\* pd.DataFrame(): no rows (df.empty)
EmptyDF == <<>>

\* the rows of a frame, as a set
RowsOf(df) == {df[i] : i \in 1..Len(df)}

\* all frames of at most n rows over a set of rows
Frames(rows, n) == UNION {[1..k -> rows] : k \in 0..n}

\* the rows of df at the positions in idx, in frame order, from position i on
RECURSIVE SelectIdx(_, _, _)
SelectIdx(df, idx, i) ==
    IF i > Len(df) THEN <<>>
    ELSE (IF i \in idx THEN <<df[i]>> ELSE <<>>) \o SelectIdx(df, idx, i + 1)

----------------------------------------------------------------------------
(* MintegralSitesFetcher (src/raw_mintegral.py) *)

clinet == <<"c", "l", "i", "n", "e", "t">>

CLINET == <<"C", "L", "I", "N", "E", "T">>

\* the ordered (pattern, label) rules of process_data
ClientRules ==
    << [pattern |-> clinet \o <<"1">>, label |-> "liga_stavok"],
       [pattern |-> clinet \o <<"2">>, label |-> "betboom"],
       [pattern |-> clinet \o <<"3">>, label |-> "winline"] >>

\* sample 'Offer Name' values of the report: one pattern each, in several
\* letter cases, names holding the patterns of two rules, a name holding none,
\* and a missing name
MintOffers ==
    { clinet \o <<"1">>,
      CLINET \o <<"2">>,
      <<"x", "C", "l", "i", "n", "e", "t", "3">>,
      clinet \o <<"1">> \o CLINET \o <<"3">>,
      <<"C", "l", "i", "n", "e", "t", "3">> \o clinet \o <<"1">>,
      clinet \o <<"2">> \o CLINET \o <<"1">>,
      <<"c", "l", "i", "e", "n", "t", "1">>,
      NaN }

\* sample 'Date' values: a day of the window and a text that is no date
MintDates ==
    { <<"2", "0", "2", "4", "0", "1", "1", "0">>,
      <<"2", "0", "2", "4", "1", "3", "1", "0">> }

\* sample 'Sub Id' values
MintSubs == { <<"a">>, <<"b">> }

\* the rows a report can hold (the other metric columns pass through unread)
MintRawRows ==
    [Date : MintDates, Offer : MintOffers, Sub : MintSubs, Spend : {5}]

\* the rows the reports of a whole run of the job are drawn from
MintJobRows ==
    {r \in MintRawRows :
        /\ r.Offer \in {clinet \o <<"1">>, CLINET \o <<"2">>,
                        <<"c", "l", "i", "e", "n", "t", "1">>}
        /\ r.Sub = <<"a">>}

\* one assignment df.loc[contains(pattern), 'client'] = label, on one row
loc_assign(client, name, rule) ==
    IF str_contains(name, rule.pattern) THEN rule.label ELSE client

\* client of a campaign name, as a chain of three first-match-wins tests
ClassifyFirstMatch(name) ==
    IF str_contains(name, ClientRules[1].pattern) THEN ClientRules[1].label
    ELSE IF str_contains(name, ClientRules[2].pattern) THEN ClientRules[2].label
    ELSE IF str_contains(name, ClientRules[3].pattern) THEN ClientRules[3].label
    ELSE "Other"

\* df['client'] = 'Other' followed by the three df.loc assignments, in order
Classify(name) ==
    loc_assign(loc_assign(loc_assign("Other", name, ClientRules[1]),
                          name, ClientRules[2]),
               name, ClientRules[3])

\* drop_duplicates(subset=['key_network']), keep='first' (missing keys compare equal)
drop_duplicates_key(df) ==
    SelectIdx(df, {i \in 1..Len(df) :
                     \A j \in 1..(i - 1) : df[j].key_network # df[i].key_network}, 1)

\* key_network = day + campaign_network + site_network
MintKey(r) == StrCat3(r.day, r.campaign_network, r.site_network)

\* MintegralSitesFetcher.process_data
Mintegral_process_data(df) ==
    IF df = EmptyDF THEN df
    ELSE LET renamed == [i \in 1..Len(df) |->
                            [day |-> df[i].Date,
                             campaign_network |-> df[i].Offer,
                             site_network |-> df[i].Sub,
                             spend |-> df[i].Spend,
                             client |-> Classify(df[i].Offer)]]
             clients == SelectIdx(renamed, {i \in 1..Len(renamed) :
                                              renamed[i].client # "Other"}, 1)
             dated   == [i \in 1..Len(clients) |->
                            [clients[i] EXCEPT
                                !.day = strftime_iso(to_datetime_Ymd(clients[i].day))]]
             keyed   == [i \in 1..Len(dated) |->
                            [day |-> dated[i].day,
                             campaign_network |-> dated[i].campaign_network,
                             site_network |-> dated[i].site_network,
                             spend |-> dated[i].spend,
                             client |-> dated[i].client,
                             key_network |-> MintKey(dated[i])]]
         IN  drop_duplicates_key(keyed)

\* the two days DELETE FROM raw_mint names
MintWindow == { strftime_iso(DaysAgo(1)), strftime_iso(DaysAgo(2)) }

\* INSERT of the rows of df into a table whose key_network is PRIMARY KEY fails
\* on a missing key, on two rows of df with one key, and on a key the table holds
PrimaryKeyViolation(df, table) ==
    \/ \E i \in 1..Len(df) : df[i].key_network = NaN
    \/ \E i, j \in 1..Len(df) : i # j /\ df[i].key_network = df[j].key_network
    \/ \E i \in 1..Len(df) : \E r \in table : r.key_network = df[i].key_network

\* MintegralSitesFetcher.save_to_database: the table afterwards and whether the
\* call raised; engine.begin() rolls the DELETE back when the INSERT raises
Mintegral_save_to_database(df, table) ==
    IF df = EmptyDF THEN [table |-> table, raised |-> FALSE]
    ELSE LET kept == {r \in table : r.day \notin MintWindow}
         IN  IF PrimaryKeyViolation(df, kept)
             THEN [table |-> table, raised |-> TRUE]
             ELSE [table |-> kept \cup RowsOf(df), raised |-> FALSE]

\* responses to a status poll (type=2), by the branch of the loop they take
PollKinds == {"non200", "json204", "jsonOther", "jsonNonObject", "emptyText", "table"}

\* one pass of the `while True` body of fetch_data on a poll response:
\* go round again, return a frame, or raise
Mintegral_poll(resp) ==
    IF resp.kind = "non200" THEN [next |-> "return", value |-> EmptyDF]
    ELSE IF resp.kind = "json204" THEN [next |-> "continue", value |-> EmptyDF]
    ELSE IF resp.kind = "jsonOther" THEN [next |-> "return", value |-> EmptyDF]
    \* response.json() gave a value that is no object: payload.get raises
    \* AttributeError, which `except ValueError` does not catch
    ELSE IF resp.kind = "jsonNonObject" THEN [next |-> "raise", value |-> EmptyDF]
    ELSE IF resp.kind = "emptyText" THEN [next |-> "return", value |-> EmptyDF]
    ELSE [next |-> "return", value |-> resp.frame]

\* rows the upstream may still return in this run
MintBudget == MaxRows - (IF mAcct = 2 THEN Len(mDf1) ELSE 0)

\* the poll responses other than "not ready"
PollAnswers ==
    [kind : PollKinds \ {"json204", "table"}, frame : {EmptyDF}]
    \cup [kind : {"table"}, frame : Frames(MintJobRows, MintBudget)]

\* the Mintegral job before its run, on an empty table
IdleMint ==
    /\ mPc = "idle"
    /\ mAcct = 1
    /\ mPolls = 0
    /\ mLast = "none"
    /\ mRet = EmptyDF
    /\ mDf1 = EmptyDF
    /\ mDf2 = EmptyDF
    /\ raw_mint = {}

\* a frame of the attribution job: pd.DataFrame() has no columns; a parsed
\* CSV has the export's columns and its rows
NoColumns == [columns |-> FALSE, rows |-> <<>>]

\* the AppsFlyer job before its run, on an empty table
IdleAF ==
    /\ aPc = "idle"
    /\ aIdx = 1
    /\ aCombined = NoColumns
    /\ aEvents = NoColumns
    /\ aInstalls = NoColumns
    /\ aDf = NoColumns
    /\ aFailed = {}
    /\ raw_af_table = <<>>

\* the merge job before its run, on an empty warehouse table
IdleAgg ==
    /\ gPc = "idle"
    /\ gUnity = EmptyDF
    /\ gMint = EmptyDF
    /\ gAf = EmptyDF
    /\ gMerged = EmptyDF
    /\ gSheet = <<>>
    /\ gPay = EmptyDF
    /\ gFinal = EmptyDF
    /\ gTrace = <<>>
    /\ gFailed = "none"
    /\ gRun = 0
    /\ bq_table = <<>>

\* no response received yet
NoResponse == [status |-> 0, frame |-> EmptyDF]

\* the Unity job before its first run, on an empty store
IdleUnity ==
    /\ uPc = "idle"
    /\ uRun = 0
    /\ uResp = NoResponse
    /\ uDf = EmptyDF
    /\ uPrevResp = NoResponse
    /\ uSnap = <<{}, <<>>>>
    /\ raw_ru_unity_sites_liga_betboom_pari = {}
    /\ raw_unity = <<>>

\* tables an earlier run can have left: rows of the window and older rows
MintOldRows ==
    RowsOf(Mintegral_process_data(
        << [Date |-> <<"2", "0", "2", "4", "0", "1", "1", "0">>,
            Offer |-> clinet \o <<"1">>, Sub |-> <<"a">>, Spend |-> 3],
           [Date |-> <<"2", "0", "2", "4", "0", "1", "0", "5">>,
            Offer |-> clinet \o <<"1">>, Sub |-> <<"a">>, Spend |-> 3] >>))

InitMint ==
    /\ mPc = "idle"
    /\ mAcct = 1
    /\ mPolls = 0
    /\ mLast = "none"
    /\ mRet = EmptyDF
    /\ mDf1 = EmptyDF
    /\ mDf2 = EmptyDF
    /\ raw_mint \in SUBSET MintOldRows
    /\ IdleUnity
    /\ IdleAF
    /\ IdleAgg

\* process_and_save is called: the first fetch_data call begins
MintStart ==
    /\ mPc = "idle"
    /\ mPc' = "request"
    /\ UNCHANGED <<mAcct, mPolls, mLast, mRet, mDf1, mDf2, raw_mint>>
    /\ UNCHANGED <<varsUnity, varsAF, varsAgg>>

\* the report request (type=1) answers non-200: fetch_data returns an empty frame
MintInitiateFail ==
    /\ mPc = "request"
    /\ mLast' = "non200"
    /\ mRet' = EmptyDF
    /\ mPc' = "returned"
    /\ UNCHANGED <<mAcct, mPolls, mDf1, mDf2, raw_mint>>
    /\ UNCHANGED <<varsUnity, varsAF, varsAgg>>

\* the report request answers 200: fetch_data enters the poll loop
MintInitiateOk ==
    /\ mPc = "request"
    /\ mLast' = "ok200"
    /\ mPc' = "poll"
    /\ UNCHANGED <<mAcct, mPolls, mRet, mDf1, mDf2, raw_mint>>
    /\ UNCHANGED <<varsUnity, varsAF, varsAgg>>

\* one pass of the poll loop on the response resp
MintPoll(resp) ==
    /\ mPc = "poll"
    /\ mLast' = resp.kind
    /\ mPolls' = IF mPolls < MaxPolls THEN mPolls + 1 ELSE mPolls
    /\ LET o == Mintegral_poll(resp)
       IN  /\ mPc' = CASE o.next = "continue" -> "poll"
                       [] o.next = "return" -> "returned"
                       [] OTHER -> "raised"
           /\ mRet' = o.value
    /\ UNCHANGED <<mAcct, mDf1, mDf2, raw_mint>>
    /\ UNCHANGED <<varsUnity, varsAF, varsAgg>>

\* a poll answers HTTP 200 with JSON code 204: not ready
MintPollNotReady == MintPoll([kind |-> "json204", frame |-> EmptyDF])

\* a poll answers anything else
MintPollAnswer == \E resp \in PollAnswers : MintPoll(resp)

\* df1 = fetch_data(...) / df2 = fetch_data(...): the returned frame is bound
MintReturn ==
    /\ mPc = "returned"
    /\ IF mAcct = 1
       THEN /\ mDf1' = mRet
            /\ mAcct' = 2
            /\ mPc' = "request"
            /\ UNCHANGED mDf2
       ELSE /\ mDf2' = mRet
            /\ mPc' = "process"
            /\ UNCHANGED <<mDf1, mAcct>>
    /\ mPolls' = 0
    /\ mLast' = "none"
    /\ mRet' = EmptyDF
    /\ UNCHANGED raw_mint
    /\ UNCHANGED <<varsUnity, varsAF, varsAgg>>

\* df1 = process_data(df1); df2 = process_data(df2)
MintProcess ==
    /\ mPc = "process"
    /\ mDf1' = Mintegral_process_data(mDf1)
    /\ mDf2' = Mintegral_process_data(mDf2)
    /\ mPc' = "save"
    /\ UNCHANGED <<mAcct, mPolls, mLast, mRet, raw_mint>>
    /\ UNCHANGED <<varsUnity, varsAF, varsAgg>>

\* df = pd.concat([df1, df2]); save_to_database(df)
MintSave ==
    /\ mPc = "save"
    /\ LET r == Mintegral_save_to_database(mDf1 \o mDf2, raw_mint)
       IN  /\ raw_mint' = r.table
           /\ mPc' = IF r.raised THEN "raised" ELSE "done"
    /\ UNCHANGED <<mAcct, mPolls, mLast, mRet, mDf1, mDf2>>
    /\ UNCHANGED <<varsUnity, varsAF, varsAgg>>

NextMint ==
    \/ MintStart
    \/ MintInitiateFail
    \/ MintInitiateOk
    \/ MintPollNotReady
    \/ MintPollAnswer
    \/ MintReturn
    \/ MintProcess
    \/ MintSave

SpecMint == InitMint /\ [][NextMint]_vars

\* the job under the assumptions that it keeps running and that the report
\* endpoint does not answer "not ready" for ever
LiveSpecMint ==
    /\ SpecMint
    /\ WF_vars(MintStart \/ MintInitiateFail \/ MintInitiateOk \/ MintReturn
                 \/ MintProcess \/ MintSave)
    /\ WF_vars(MintPollAnswer)

\* process_data and save_to_database on every report of at most MaxRows rows
\* returned to the first account (the second account returned nothing)
InitMintProcess ==
    /\ mPc = "process"
    /\ mAcct = 2
    /\ mPolls = 0
    /\ mLast = "none"
    /\ mRet = EmptyDF
    /\ mDf1 \in Frames(MintRawRows, MaxRows)
    /\ mDf2 = EmptyDF
    /\ raw_mint = {}
    /\ IdleUnity
    /\ IdleAF
    /\ IdleAgg

NextMintProcess ==
    \/ MintProcess
    \/ MintSave

SpecMintProcess == InitMintProcess /\ [][NextMintProcess]_vars

----------------------------------------------------------------------------
(* UnitySitesFetcher (src/raw_unity.py) *)

\* str(x) of a text cell: a missing cell prints as 'nan'
astype_str(x) == IF x = NaN THEN <<"n", "a", "n">> ELSE x

\* Series.replace("nan", ""): only a cell that is the text 'nan' changes
replace_nan_text(x) == IF x = <<"n", "a", "n">> THEN <<>> ELSE x

\* sample rows of the acquisitions report: 'timestamp', 'campaign name',
\* 'source app id' (one of them missing) and 'spend'
UnityRawRows ==
    [timestamp : {strftime_iso(DaysAgo(1))},
     campaign : {<<"a">>, <<"a", "b">>},
     site : {<<"c">>, <<"b", "c">>},
     spend : {0, 5}]
    \cup {[timestamp |-> strftime_iso(DaysAgo(2)), campaign |-> <<"a">>,
           site |-> NaN, spend |-> 5]}

\* UnitySitesFetcher.fetch_data: the frame returned for a response
Unity_fetch_data(resp) ==
    IF resp.status # 200 THEN EmptyDF ELSE resp.frame

\* key_network = timestamp + campaign name + source app id, each as text
UnityKey(timestamp, campaign, site) ==
    astype_str(timestamp) \o astype_str(campaign) \o astype_str(site)

\* UnitySitesFetcher.process_data
Unity_process_data(df) ==
    IF df = EmptyDF THEN df
    ELSE LET keyed == [i \in 1..Len(df) |->
                          LET site == astype_str(replace_nan_text(df[i].site))
                          IN  [key_network |-> UnityKey(df[i].timestamp,
                                                        df[i].campaign, site),
                               day |-> df[i].timestamp,
                               campaign_network |-> df[i].campaign,
                               site_network |-> site,
                               spend |-> df[i].spend,
                               network |-> "unity"]]
         IN  SelectIdx(keyed, {i \in 1..Len(keyed) : keyed[i].spend > 0}, 1)

\* start_date .. end_date of fetch_and_save, as DATE values of the table
UnityWindow == { strftime_iso(DaysAgo(2)), strftime_iso(DaysAgo(1)) }

\* UnitySitesFetcher.save_to_database: the two tables afterwards. The DELETE
\* acts on raw_ru_unity_sites_liga_betboom_pari; df.to_sql("raw_unity", ...,
\* if_exists="append") appends to raw_unity, which it creates without a key
Unity_save_to_database(df, keyed_table, appended_table) ==
    IF df = EmptyDF
    THEN [raw_ru_unity_sites_liga_betboom_pari |-> keyed_table,
          raw_unity |-> appended_table]
    ELSE [raw_ru_unity_sites_liga_betboom_pari |->
              {r \in keyed_table : r.day \notin UnityWindow},
          raw_unity |-> appended_table \o df]

\* what the report endpoint can answer in one run
UnityResponses ==
    {[status |-> 500, frame |-> EmptyDF]}
    \cup [status : {200}, frame : Frames(UnityRawRows, MaxRows)]

\* rows an earlier deployment left in the keyed table: one of the window, one older
UnityOldRows ==
    { [key_network |-> strftime_iso(DaysAgo(1)) \o <<"a", "c">>,
       day |-> strftime_iso(DaysAgo(1)), campaign_network |-> <<"a">>,
       site_network |-> <<"c">>, spend |-> 2, network |-> "unity"],
      [key_network |-> strftime_iso(DaysAgo(5)) \o <<"a", "c">>,
       day |-> strftime_iso(DaysAgo(5)), campaign_network |-> <<"a">>,
       site_network |-> <<"c">>, spend |-> 2, network |-> "unity"] }

InitUnity ==
    /\ uPc = "idle"
    /\ uRun = 0
    /\ uResp = NoResponse
    /\ uDf = EmptyDF
    /\ uPrevResp = NoResponse
    /\ raw_ru_unity_sites_liga_betboom_pari \in SUBSET UnityOldRows
    /\ raw_unity = <<>>
    /\ uSnap = <<raw_ru_unity_sites_liga_betboom_pari, raw_unity>>
    /\ IdleMint
    /\ IdleAF
    /\ IdleAgg

\* the scheduler starts fetch_and_save (again, once the last run has ended)
UnityStart ==
    /\ uPc \in {"idle", "done"}
    /\ uRun < MaxRuns
    /\ uRun' = uRun + 1
    /\ uPrevResp' = uResp
    /\ uSnap' = <<raw_ru_unity_sites_liga_betboom_pari, raw_unity>>
    /\ uResp' = NoResponse
    /\ uDf' = EmptyDF
    /\ uPc' = "fetch"
    /\ UNCHANGED <<raw_ru_unity_sites_liga_betboom_pari, raw_unity>>
    /\ UNCHANGED <<varsMint, varsAF, varsAgg>>

\* df = fetch_data(start_date, end_date); an empty df ends the run
UnityFetch ==
    /\ uPc = "fetch"
    /\ \E resp \in UnityResponses :
          /\ uResp' = resp
          /\ uDf' = Unity_fetch_data(resp)
          /\ uPc' = IF Unity_fetch_data(resp) = EmptyDF THEN "done" ELSE "process"
    /\ UNCHANGED <<uRun, uPrevResp, uSnap,
                   raw_ru_unity_sites_liga_betboom_pari, raw_unity>>
    /\ UNCHANGED <<varsMint, varsAF, varsAgg>>

\* df = process_data(df)
UnityProcess ==
    /\ uPc = "process"
    /\ uDf' = Unity_process_data(uDf)
    /\ uPc' = "save"
    /\ UNCHANGED <<uRun, uResp, uPrevResp, uSnap,
                   raw_ru_unity_sites_liga_betboom_pari, raw_unity>>
    /\ UNCHANGED <<varsMint, varsAF, varsAgg>>

\* save_to_database(df, start_date, end_date)
UnitySave ==
    /\ uPc = "save"
    /\ LET t == Unity_save_to_database(uDf, raw_ru_unity_sites_liga_betboom_pari,
                                       raw_unity)
       IN  /\ raw_ru_unity_sites_liga_betboom_pari' =
                  t.raw_ru_unity_sites_liga_betboom_pari
           /\ raw_unity' = t.raw_unity
    /\ uPc' = "done"
    /\ UNCHANGED <<uRun, uResp, uDf, uPrevResp, uSnap>>
    /\ UNCHANGED <<varsMint, varsAF, varsAgg>>

NextUnity ==
    \/ UnityStart
    \/ UnityFetch
    \/ UnityProcess
    \/ UnitySave

SpecUnity == InitUnity /\ [][NextUnity]_vars

----------------------------------------------------------------------------
(* AppsFlyerDataFetcher (src/raw_af.py) *)

\* self.app_ids
app_ids == <<"app1", "app2", "app3", "app4">>

\* event names of the raw-data exports: the four that are renamed, 'install',
\* and one outside the taxonomy
AfEventNames ==
    {"register", "conversionStep_[1]_success", "ftt", "ftd1", "install",
     "af_purchase"}

\* an install time of the window, as the export prints it (date and hour)
AfInstallTimes ==
    { strftime_iso(DaysAgo(1)) \o <<" ", "0", "9", ":", "3", "0">> }

\* the rows an export of one application can hold
AfRowsOf(app) ==
    [appsflyer_id : {"u1"}, app_id : {app}, event_name : AfEventNames,
     install_time : AfInstallTimes]

\* pd.concat([a, b], ignore_index=True)
concat(a, b) ==
    [columns |-> a.columns \/ b.columns, rows |-> a.rows \o b.rows]

\* df_af.loc[df_af['app_id'].isin([...]), 'client'] = ..., after client = None
AfClient(app) ==
    CASE app = "app1" -> "client1"
      [] app = "app2" -> "client2"
      [] app = "app3" -> "client3"
      [] OTHER -> "None"

\* df_af['event_name'].replace({...}) on one value
event_name_replace(name) ==
    CASE name = "register" -> "register"
      [] name = "conversionStep_[1]_success" -> "register"
      [] name = "ftt" -> "deposit"
      [] name = "ftd1" -> "deposit"
      [] OTHER -> name

\* a taxonomy without 'install'
ValidWithoutInstall == {"register", "deposit"}

\* valid = ['register', 'deposit', 'install']
valid == {"register", "deposit", "install"}

\* pd.to_datetime(x).dt.date: the date part of a timestamp text
dt_date(x) == SubSeq(x, 1, 10)

\* DataFrame.drop_duplicates(): a row stays unless an earlier row equals it
drop_duplicates(rows) ==
    SelectIdx(rows, {i \in 1..Len(rows) : \A j \in 1..(i - 1) : rows[j] # rows[i]}, 1)

\* process_and_save from the concat to drop_duplicates: the processed frame,
\* or a KeyError on df_af['app_id'] when no export was parsed
AppsFlyer_process(df_events, df_installs) ==
    LET df_af == concat(df_events, df_installs)
    IN  IF ~df_af.columns THEN [raised |-> TRUE, df |-> NoColumns]
        ELSE
        LET renamed == [i \in 1..Len(df_af.rows) |->
                           [df_af.rows[i] EXCEPT
                               !.event_name = event_name_replace(@)]]
            kept == SelectIdx(renamed, {i \in 1..Len(renamed) :
                                           renamed[i].event_name \in valid}, 1)
            out == [i \in 1..Len(kept) |->
                       [appsflyer_id |-> kept[i].appsflyer_id,
                        client |-> AfClient(kept[i].app_id),
                        app_id |-> kept[i].app_id,
                        event_name |-> kept[i].event_name,
                        install_time |-> dt_date(kept[i].install_time),
                        reg_af |-> IF kept[i].event_name = "register" THEN 1 ELSE 0,
                        deposit_af |-> IF kept[i].event_name = "deposit" THEN 1 ELSE 0]]
        IN  [raised |-> FALSE, df |-> [columns |-> TRUE, rows |-> drop_duplicates(out)]]

\* the CREATE TABLE IF NOT EXISTS raw_af_table statement: its thirteen column
\* definitions, and the comma that follows the last of them
raw_af_table_ddl ==
    [columns |-> <<"appsflyer_id", "client", "app_id", "event_name", "event_time",
                   "install_time", "media_source", "adset", "ad_type_af",
                   "campaign_af", "site_af", "reg_af", "deposit_af">>,
     trailing_comma |-> TRUE]

\* PostgreSQL accepts a column list only without a comma before the `)`
DdlParses(ddl) == Len(ddl.columns) > 0 /\ ~ddl.trailing_comma

\* start_date, end_date passed by the DAG, as DATE values
AfWindow == { strftime_iso(DaysAgo(2)), strftime_iso(DaysAgo(1)) }

\* the persist step of process_and_save: the CREATE TABLE and the DELETE run
\* in one transaction, df_af.to_sql appends after it. The statement that does
\* not parse raises out of the `with` block before anything is deleted
AppsFlyer_persist(df, table) ==
    IF ~DdlParses(raw_af_table_ddl)
    THEN [raised |-> TRUE, table |-> table]
    ELSE [raised |-> FALSE,
          table |-> SelectIdx(table, {i \in 1..Len(table) :
                                         table[i].install_time \notin AfWindow}, 1)
                    \o df.rows]

\* rows the exports may still return in this run
AfBudget ==
    MaxRows - Len(aCombined.rows)
            - (IF aPc = "fetch_installs" THEN Len(aEvents.rows) ELSE 0)

\* rows an earlier deployment left in raw_af_table
AfOldRows ==
    << [appsflyer_id |-> "u0", client |-> "client1", app_id |-> "app1",
        event_name |-> "register", install_time |-> strftime_iso(DaysAgo(1)),
        reg_af |-> 1, deposit_af |-> 0] >>

InitAF ==
    /\ aPc = "idle"
    /\ aIdx = 1
    /\ aCombined = NoColumns
    /\ aEvents = NoColumns
    /\ aInstalls = NoColumns
    /\ aDf = NoColumns
    /\ aFailed = {}
    /\ raw_af_table \in {<<>>, AfOldRows}
    /\ IdleMint
    /\ IdleUnity
    /\ IdleAgg

\* process_and_save(start_date, end_date) is called
AFStart ==
    /\ aPc = "idle"
    /\ aPc' = "fetch_events"
    /\ UNCHANGED <<aIdx, aCombined, aEvents, aInstalls, aDf, aFailed, raw_af_table>>
    /\ UNCHANGED <<varsMint, varsUnity, varsAgg>>

\* one pass of fetch_data's loop: the GET for app_ids[aIdx] answers non-200
AFGetFail ==
    /\ aPc \in {"fetch_events", "fetch_installs"}
    /\ aIdx <= Len(app_ids)
    /\ aFailed' = aFailed \cup {app_ids[aIdx]}
    /\ aIdx' = aIdx + 1
    /\ UNCHANGED <<aPc, aCombined, aEvents, aInstalls, aDf, raw_af_table>>
    /\ UNCHANGED <<varsMint, varsUnity, varsAgg>>

\* one pass of fetch_data's loop: the GET answers 200 and its CSV is appended
AFGetOk ==
    /\ aPc \in {"fetch_events", "fetch_installs"}
    /\ aIdx <= Len(app_ids)
    /\ \E rows \in Frames(AfRowsOf(app_ids[aIdx]), AfBudget) :
          aCombined' = concat(aCombined, [columns |-> TRUE, rows |-> rows])
    /\ aIdx' = aIdx + 1
    /\ UNCHANGED <<aPc, aEvents, aInstalls, aDf, aFailed, raw_af_table>>
    /\ UNCHANGED <<varsMint, varsUnity, varsAgg>>

\* fetch_data returns df_combined: df_events = ..., then df_installs = ...
AFFetchReturn ==
    /\ aPc \in {"fetch_events", "fetch_installs"}
    /\ aIdx > Len(app_ids)
    /\ IF aPc = "fetch_events"
       THEN /\ aEvents' = aCombined
            /\ aPc' = "fetch_installs"
            /\ UNCHANGED aInstalls
       ELSE /\ aInstalls' = aCombined
            /\ aPc' = "process"
            /\ UNCHANGED aEvents
    /\ aCombined' = NoColumns
    /\ aIdx' = 1
    /\ UNCHANGED <<aDf, aFailed, raw_af_table>>
    /\ UNCHANGED <<varsMint, varsUnity, varsAgg>>

\* the transform of process_and_save, up to drop_duplicates
AFProcess ==
    /\ aPc = "process"
    /\ LET r == AppsFlyer_process(aEvents, aInstalls)
       IN  /\ aDf' = r.df
           /\ aPc' = IF r.raised THEN "raised" ELSE "persist"
    /\ UNCHANGED <<aIdx, aCombined, aEvents, aInstalls, aFailed, raw_af_table>>
    /\ UNCHANGED <<varsMint, varsUnity, varsAgg>>

\* the persist step of process_and_save
AFPersist ==
    /\ aPc = "persist"
    /\ LET r == AppsFlyer_persist(aDf, raw_af_table)
       IN  /\ raw_af_table' = r.table
           /\ aPc' = IF r.raised THEN "raised" ELSE "done"
    /\ UNCHANGED <<aIdx, aCombined, aEvents, aInstalls, aDf, aFailed>>
    /\ UNCHANGED <<varsMint, varsUnity, varsAgg>>

NextAF ==
    \/ AFStart
    \/ AFGetFail
    \/ AFGetOk
    \/ AFFetchReturn
    \/ AFProcess
    \/ AFPersist

SpecAF == InitAF /\ [][NextAF]_vars

\* the transform and the persist step on every pair of exports of at most
\* MaxRows rows in all
InitAFProcess ==
    /\ aPc = "process"
    /\ aIdx = 1
    /\ aCombined = NoColumns
    /\ aEvents \in {NoColumns} \cup
          [columns : {TRUE},
           rows : Frames(UNION {AfRowsOf(app_ids[k]) : k \in 1..Len(app_ids)}, MaxRows)]
    /\ aInstalls \in {NoColumns} \cup
          [columns : {TRUE},
           rows : Frames(UNION {AfRowsOf(app_ids[k]) : k \in 1..Len(app_ids)},
                         MaxRows - Len(aEvents.rows))]
    /\ aDf = NoColumns
    /\ aFailed = {}
    /\ raw_af_table = <<>>
    /\ IdleMint
    /\ IdleUnity
    /\ IdleAgg

NextAFProcess ==
    \/ AFProcess
    \/ AFPersist

SpecAFProcess == InitAFProcess /\ [][NextAFProcess]_vars

----------------------------------------------------------------------------
(* RuBettersToBigQuery (src/agg_google_bc.py) *)

\* a numeric cell of a frame: a number, or NaN
Num(v) == [nan |-> FALSE, value |-> v]

NumNaN == [nan |-> TRUE, value |-> 0]

\* a <= b on dates
DateLE(a, b) ==
    \/ a.y < b.y
    \/ a.y = b.y /\ a.m < b.m
    \/ a.y = b.y /\ a.m = b.m /\ a.d <= b.d

DaysInMonth(y, m) ==
    IF m = 2
    THEN (IF y % 4 = 0 /\ (y % 100 # 0 \/ y % 400 = 0) THEN 29 ELSE 28)
    ELSE (IF m \in {4, 6, 9, 11} THEN 30 ELSE 31)

\* t - timedelta(days=k)
RECURSIVE MinusDays(_, _)
MinusDays(t, k) ==
    IF k = 0 THEN t
    ELSE IF t.d > 1 THEN MinusDays([t EXCEPT !.d = t.d - 1], k - 1)
    ELSE IF t.m > 1
         THEN MinusDays([y |-> t.y, m |-> t.m - 1, d |-> DaysInMonth(t.y, t.m - 1)],
                        k - 1)
         ELSE MinusDays([y |-> t.y - 1, m |-> 12, d |-> 31], k - 1)

\* start_date and end_date of fetch_data and of save_to_bigquery
AggStartDate == MinusDays(Today, 40)

AggEndDate == Today

\* strftime('%b'): the month abbreviations of the C locale
MonthAbbr ==
    << <<"J", "a", "n">>, <<"F", "e", "b">>, <<"M", "a", "r">>, <<"A", "p", "r">>,
       <<"M", "a", "y">>, <<"J", "u", "n">>, <<"J", "u", "l">>, <<"A", "u", "g">>,
       <<"S", "e", "p">>, <<"O", "c", "t">>, <<"N", "o", "v">>, <<"D", "e", "c">> >>

\* Series.dt.strftime('%b') on one value
strftime_b(t) == IF t = NaT THEN NaN ELSE MonthAbbr[t.m]

\* Series.str.lower() on one value
str_lower(s) == IF s = NaN THEN NaN ELSE LowerStr(s)

\* Series.str[:3] on one value
str_slice3(s) ==
    IF s = NaN THEN NaN ELSE SubSeq(s, 1, IF Len(s) < 3 THEN Len(s) ELSE 3)

\* Series.fillna('') on one text value
fillna_text(s) == IF s = NaN THEN <<>> ELSE s

appX == <<"a", "p", "p", "X">>

appY == <<"a", "p", "p", "Y">>

mediaY == <<"m", "e", "d", "i", "a", "Y">>

Jan10 == [y |-> 2024, m |-> 1, d |-> 10]

Jan09 == [y |-> 2024, m |-> 1, d |-> 9]

Dec20 == [y |-> 2023, m |-> 12, d |-> 20]

\* rows of the two network tables inside the 40-day window (columns that
\* fetch_data carries through untouched are left out)
AggNetRows ==
    { [key_network |-> strftime_iso(t) \o <<"c">> \o <<"s">>, day |-> t,
       spend |-> Num(5)] : t \in {Jan10, Jan09} }

\* rows of the attribution table inside the window: a registration and an
\* install of the install month, a stray registration, and a registration
\* without a site
AggAfRows ==
    { [install_time |-> Jan10, event_time |-> x.e, event_name |-> x.n,
       campaign_af |-> <<"c">>, site_af |-> x.s, app_id |-> appX,
       media_source |-> mediaY, reg_af |-> IF x.n = "register" THEN 1 ELSE 0] :
         x \in { [e |-> [y |-> 2024, m |-> 1, d |-> 12], n |-> "register", s |-> <<"s">>],
                 [e |-> [y |-> 2024, m |-> 1, d |-> 12], n |-> "install", s |-> <<"s">>],
                 [e |-> [y |-> 2024, m |-> 3, d |-> 1], n |-> "register", s |-> <<"s">>],
                 [e |-> [y |-> 2024, m |-> 1, d |-> 12], n |-> "register", s |-> NaN] } }

\* read_table_in_chunks on the rows the query returns
read_table_in_chunks(rows) == drop_duplicates(rows)

\* dt.to_period('M').dt.start_time
month_start(t) == [y |-> t.y, m |-> t.m, d |-> 1]

\* dt.to_period('M').dt.end_time + timedelta(days=5): the last instant of the
\* fifth day of the following month
month_end(t) ==
    IF t.m = 12 THEN [y |-> t.y + 1, m |-> 1, d |-> 5]
    ELSE [y |-> t.y, m |-> t.m + 1, d |-> 5]

\* (event_time >= month_start) & (event_time <= month_end); a comparison with
\* NaT is False
in_install_month(r) ==
    /\ r.install_time # NaT
    /\ r.event_time # NaT
    /\ DateLE(month_start(r.install_time), r.event_time)
    /\ DateLE(r.event_time, month_end(r.install_time))

\* df_af['key_af']
key_af(r) ==
    strftime_iso(r.install_time) \o fillna_text(r.campaign_af)
        \o fillna_text(r.site_af)

\* GroupBy 'first' on a text column: the first value that is not missing
first_valid(rows, col) ==
    IF \A i \in 1..Len(rows) : rows[i][col] = NaN THEN NaN
    ELSE rows[CHOOSE i \in 1..Len(rows) :
                 /\ rows[i][col] # NaN
                 /\ \A j \in 1..(i - 1) : rows[j][col] = NaN][col]

\* GroupBy 'sum' on a numeric column
RECURSIVE col_sum(_, _)
col_sum(rows, col) ==
    IF rows = <<>> THEN 0
    ELSE rows[1][col] + col_sum(SubSeq(rows, 2, Len(rows)), col)

\* df_af.groupby('key_af').agg({...}).reset_index(): one row per key_af.
\* pandas orders the groups by key; here they keep the order of their first row
groupby_key_af(df) ==
    LET heads == SelectIdx(df, {i \in 1..Len(df) :
                     \A j \in 1..(i - 1) : key_af(df[j]) # key_af(df[i])}, 1)
        group(h) == SelectIdx(df, {i \in 1..Len(df) : key_af(df[i]) = key_af(h)}, 1)
    IN  [g \in 1..Len(heads) |->
            LET rows == group(heads[g])
            IN  [key_af |-> key_af(heads[g]),
                 install_time |-> rows[1].install_time,
                 app_id |-> first_valid(rows, "app_id"),
                 media_source |-> first_valid(rows, "media_source"),
                 install_af |-> Num(col_sum([i \in 1..Len(rows) |->
                     [v |-> IF rows[i].event_name = "install" THEN 1 ELSE 0]], "v")),
                 reg_af |-> Num(col_sum(rows, "reg_af"))]]

\* the columns of a side of the outer join that found no partner
NetMissing == [key_network |-> NaN, day |-> NaT, spend |-> NumNaN]

AfMissing ==
    [key_af |-> NaN, install_time |-> NaT, app_id |-> NaN, media_source |-> NaN,
     install_af |-> NumNaN, reg_af |-> NumNaN]

\* the rows of the join that left[i..] contribute
RECURSIVE merge_left(_, _, _)
merge_left(left, right, i) ==
    IF i > Len(left) THEN <<>>
    ELSE LET partners == SelectIdx(right, {j \in 1..Len(right) :
                             right[j].key_af = left[i].key_network}, 1)
         IN  (IF partners = <<>> THEN <<left[i] @@ AfMissing>>
              ELSE [j \in 1..Len(partners) |-> left[i] @@ partners[j]])
             \o merge_left(left, right, i + 1)

\* pd.merge(left, right, left_on='key_network', right_on='key_af', how='outer'):
\* pandas orders the result by key; here left rows come first
merge_outer(left, right) ==
    LET alone == SelectIdx(right, {j \in 1..Len(right) :
                     \A i \in 1..Len(left) : left[i].key_network # right[j].key_af}, 1)
    IN  merge_left(left, right, 1)
        \o [j \in 1..Len(alone) |-> NetMissing @@ alone[j]]

\* fetch_data after the three reads
RuBetters_fetch_data(df_unity, df_mint, df_af) ==
    LET kept == SelectIdx(df_af, {i \in 1..Len(df_af) : in_install_month(df_af[i])}, 1)
        merged == merge_outer(df_unity \o df_mint, groupby_key_af(kept))
    IN  [i \in 1..Len(merged) |->
            [merged[i] EXCEPT !.day = IF @ = NaT THEN merged[i].install_time ELSE @]]

\* the value of a text of decimal digits
RECURSIVE DecimalValue(_)
DecimalValue(s) ==
    IF s = <<>> THEN 0
    ELSE 10 * DecimalValue(SubSeq(s, 1, Len(s) - 1)) + DigitVal(s[Len(s)])

\* pd.to_numeric(cell.replace('', pd.NA), errors='coerce') on one cell
to_numeric(cell) ==
    IF cell = <<>> THEN NumNaN
    ELSE IF \A i \in 1..Len(cell) : IsDigit(cell[i]) THEN Num(DecimalValue(cell))
    ELSE NumNaN

\* a frame in which blank payouts stay NaN
fillna_skipped(x, v) == x

\* Series.fillna(v) on one numeric cell
fillna(x, v) == IF x.nan THEN Num(v) ELSE x

\* fetch_payouts on the data rows ws.get_all_values() returns after the header
RuBetters_fetch_payouts(data) ==
    [i \in 1..Len(data) |->
        [app_id |-> data[i].app_id,
         media_source |-> data[i].media_source,
         month |-> str_lower(str_slice3(data[i].month)),
         payout |-> fillna(to_numeric(data[i].payout), 0)]]

\* {k: v for k, v in items}: a later item replaces an earlier one with its key
RECURSIVE dict_of(_)
dict_of(items) ==
    IF items = <<>> THEN <<>>
    ELSE LET n == Len(items)
             d == dict_of(SubSeq(items, 1, n - 1))
         IN  [k \in (DOMAIN d) \cup {items[n][1]} |->
                 IF k = items[n][1] THEN items[n][2] ELSE d[k]]

\* dict.get(key, default)
dict_get(d, key, default) == IF key \in DOMAIN d THEN d[key] ELSE default

\* a map in which the first row of a key stays
payout_map_first(df_payouts) ==
    dict_of([i \in 1..Len(df_payouts) |->
        LET r == df_payouts[Len(df_payouts) + 1 - i]
        IN  << <<r.app_id, r.media_source, r.month>>, r.payout >>])

\* payout_map of process_cpa
payout_map(df_payouts) ==
    dict_of([i \in 1..Len(df_payouts) |->
        LET r == df_payouts[i]
        IN  << <<r.app_id, r.media_source, r.month>>, r.payout >>])

\* process_cpa(df, df_payouts): df with its month and cpa columns
RuBetters_process_cpa(df, df_payouts) ==
    [i \in 1..Len(df) |->
        LET month == str_lower(strftime_b(df[i].day))
        IN  [month |-> month,
             cpa |-> dict_get(payout_map(df_payouts),
                              <<df[i].app_id, df[i].media_source, month>>, Num(0))]
            @@ df[i]]

\* a delete that removes no row
bq_delete_skipped(table) == table

\* DELETE FROM `table_id` WHERE day BETWEEN start_date AND end_date
bq_delete(table) ==
    SelectIdx(table, {i \in 1..Len(table) :
        ~(/\ table[i].day # NaT
          /\ DateLE(AggStartDate, table[i].day)
          /\ DateLE(table[i].day, AggEndDate))}, 1)

\* load_table_from_dataframe(df_final, table_id, WRITE_APPEND)
bq_load(table, df_final) == table \o df_final

\* where control goes when a statement of the try block raises, if run had
\* no handler
run_unhandled(step) == "propagated"

\* run: `except Exception` takes every failure of the try block
run_except(step) == "except"

\* the statements of fetch_data and save_to_bigquery, in program order
AggSteps ==
    <<"read_unity", "read_mint", "read_af", "merge", "fetch_payouts",
      "process_cpa", "delete", "load">>

\* cells of the payout column: blank, two amounts, and a text that is no number
PayoutCells == {<<>>, <<"1", "0">>, <<"2", "0">>, <<"x">>}

January == <<"J", "a", "n", "u", "a", "r", "y">>

\* data rows the payout sheet can hold
SheetRows ==
    [app_id : {appX, appY}, media_source : {mediaY}, month : {January},
     payout : PayoutCells]
    \cup [app_id : {appX}, media_source : {mediaY}, month : {<<"F", "E", "B">>},
          payout : {<<"1", "0">>}]

\* the sheet rows of the runs of the whole job
SheetJobRows ==
    [app_id : {appX}, media_source : {mediaY}, month : {January},
     payout : {<<>>, <<"1", "0">>}]

\* rows an earlier run loaded: one inside the 40-day window, one before it
BqOldRows ==
    << [key_network |-> NaN, day |-> Dec20, spend |-> NumNaN, key_af |-> NaN,
        install_time |-> Dec20, app_id |-> appX, media_source |-> mediaY,
        install_af |-> Num(1), reg_af |-> Num(0),
        month |-> <<"d", "e", "c">>, cpa |-> Num(0)],
       [key_network |-> NaN, day |-> [y |-> 2023, m |-> 11, d |-> 1],
        spend |-> NumNaN, key_af |-> NaN,
        install_time |-> [y |-> 2023, m |-> 11, d |-> 1], app_id |-> appX,
        media_source |-> mediaY, install_af |-> Num(1), reg_af |-> Num(0),
        month |-> <<"n", "o", "v">>, cpa |-> Num(0)] >>

InitAgg ==
    /\ gPc = "idle"
    /\ gUnity = EmptyDF
    /\ gMint = EmptyDF
    /\ gAf = EmptyDF
    /\ gMerged = EmptyDF
    /\ gSheet \in Frames(SheetJobRows, MaxSheetRows)
    /\ gPay = EmptyDF
    /\ gFinal = EmptyDF
    /\ gTrace = <<>>
    /\ gFailed = "none"
    /\ gRun = 0
    /\ bq_table \in {<<>>, BqOldRows}
    /\ IdleMint
    /\ IdleUnity
    /\ IdleAF

\* run() is called
AggStart ==
    /\ gPc = "idle"
    /\ gPc' = "read_unity"
    /\ gRun' = gRun + 1
    /\ UNCHANGED <<gUnity, gMint, gAf, gMerged, gSheet, gPay, gFinal, gTrace,
                   gFailed, bq_table>>
    /\ UNCHANGED <<varsMint, varsUnity, varsAF>>

\* df_unity = read_table_in_chunks(...)
AggReadUnity ==
    /\ gPc = "read_unity"
    /\ \E rows \in Frames(AggNetRows, MaxTableRows) :
          gUnity' = read_table_in_chunks(rows)
    /\ gPc' = "read_mint"
    /\ gTrace' = Append(gTrace, gPc)
    /\ UNCHANGED <<gMint, gAf, gMerged, gSheet, gPay, gFinal, gFailed, bq_table>>
    /\ UNCHANGED gRun
    /\ UNCHANGED <<varsMint, varsUnity, varsAF>>

\* df_mint = read_table_in_chunks(...)
AggReadMint ==
    /\ gPc = "read_mint"
    /\ \E rows \in Frames(AggNetRows, MaxTableRows) :
          gMint' = read_table_in_chunks(rows)
    /\ gPc' = "read_af"
    /\ gTrace' = Append(gTrace, gPc)
    /\ UNCHANGED <<gUnity, gAf, gMerged, gSheet, gPay, gFinal, gFailed, bq_table>>
    /\ UNCHANGED gRun
    /\ UNCHANGED <<varsMint, varsUnity, varsAF>>

\* df_af = read_table_in_chunks(...)
AggReadAf ==
    /\ gPc = "read_af"
    /\ \E rows \in Frames(AggAfRows, MaxTableRows) :
          gAf' = read_table_in_chunks(rows)
    /\ gPc' = "merge"
    /\ gTrace' = Append(gTrace, gPc)
    /\ UNCHANGED <<gUnity, gMint, gMerged, gSheet, gPay, gFinal, gFailed, bq_table>>
    /\ UNCHANGED gRun
    /\ UNCHANGED <<varsMint, varsUnity, varsAF>>

\* the rest of fetch_data; save_to_bigquery(merged_df) returns at once on an
\* empty frame
AggMerge ==
    /\ gPc = "merge"
    /\ gMerged' = RuBetters_fetch_data(gUnity, gMint, gAf)
    /\ gPc' = IF gMerged' = EmptyDF THEN "returned" ELSE "fetch_payouts"
    /\ gTrace' = Append(gTrace, gPc)
    /\ UNCHANGED <<gUnity, gMint, gAf, gSheet, gPay, gFinal, gFailed, bq_table>>
    /\ UNCHANGED gRun
    /\ UNCHANGED <<varsMint, varsUnity, varsAF>>

\* df_pay = self.fetch_payouts()
AggFetchPayouts ==
    /\ gPc = "fetch_payouts"
    /\ gPay' = RuBetters_fetch_payouts(gSheet)
    /\ gPc' = "process_cpa"
    /\ gTrace' = Append(gTrace, gPc)
    /\ UNCHANGED <<gUnity, gMint, gAf, gMerged, gSheet, gFinal, gFailed, bq_table>>
    /\ UNCHANGED gRun
    /\ UNCHANGED <<varsMint, varsUnity, varsAF>>

\* df_final = self.process_cpa(merged_df, df_pay); the columns are added to
\* merged_df itself
AggProcessCpa ==
    /\ gPc = "process_cpa"
    /\ gFinal' = RuBetters_process_cpa(gMerged, gPay)
    /\ gMerged' = gFinal'
    /\ gPc' = "delete"
    /\ gTrace' = Append(gTrace, gPc)
    /\ UNCHANGED <<gUnity, gMint, gAf, gSheet, gPay, gFailed, bq_table>>
    /\ UNCHANGED gRun
    /\ UNCHANGED <<varsMint, varsUnity, varsAF>>

\* self.bigquery_client.query(delete_sql).result()
AggDelete ==
    /\ gPc = "delete"
    /\ bq_table' = bq_delete(bq_table)
    /\ gPc' = "load"
    /\ gTrace' = Append(gTrace, gPc)
    /\ UNCHANGED <<gUnity, gMint, gAf, gMerged, gSheet, gPay, gFinal, gFailed>>
    /\ UNCHANGED gRun
    /\ UNCHANGED <<varsMint, varsUnity, varsAF>>

\* load_table_from_dataframe(...); job.result()
AggLoad ==
    /\ gPc = "load"
    /\ bq_table' = bq_load(bq_table, gFinal)
    /\ gPc' = "returned"
    /\ gTrace' = Append(gTrace, gPc)
    /\ UNCHANGED <<gUnity, gMint, gAf, gMerged, gSheet, gPay, gFinal, gFailed>>
    /\ UNCHANGED gRun
    /\ UNCHANGED <<varsMint, varsUnity, varsAF>>

\* the statement at gPc raises: a query, the sheet request or a warehouse job
\* fails, and leaves the store it addressed as it was
AggRaise ==
    /\ \E k \in 1..Len(AggSteps) : AggSteps[k] = gPc
    /\ gFailed = "none"
    /\ gFailed' = gPc
    /\ gTrace' = Append(gTrace, gPc)
    /\ gPc' = run_except(gPc)
    /\ UNCHANGED <<gUnity, gMint, gAf, gMerged, gSheet, gPay, gFinal, bq_table>>
    /\ UNCHANGED gRun
    /\ UNCHANGED <<varsMint, varsUnity, varsAF>>

\* except Exception as e: logging.error(...); run returns
AggCatch ==
    /\ gPc = "except"
    /\ gPc' = "returned"
    /\ UNCHANGED <<gUnity, gMint, gAf, gMerged, gSheet, gPay, gFinal, gTrace,
                   gFailed, bq_table>>
    /\ UNCHANGED gRun
    /\ UNCHANGED <<varsMint, varsUnity, varsAF>>

NextAgg ==
    \/ AggStart
    \/ AggReadUnity
    \/ AggReadMint
    \/ AggReadAf
    \/ AggMerge
    \/ AggFetchPayouts
    \/ AggProcessCpa
    \/ AggDelete
    \/ AggLoad
    \/ AggRaise
    \/ AggCatch

SpecAgg == InitAgg /\ [][NextAgg]_vars

\* the load job of the current run has completed
LoadDone == gFailed # "load" /\ \E k \in 1..Len(gTrace) : gTrace[k] = "load"

\* the process is killed before the statement at gPc, or in the handler
AggStop ==
    /\ gPc = "except" \/ \E k \in 1..Len(AggSteps) : AggSteps[k] = gPc
    /\ gPc' = "stopped"
    /\ UNCHANGED <<gUnity, gMint, gAf, gMerged, gSheet, gPay, gFinal, gTrace,
                   gFailed, gRun, bq_table>>
    /\ UNCHANGED <<varsMint, varsUnity, varsAF>>

\* the scheduler calls run() again after a run that ended without a completed
\* load (a run that follows a completed load meets a table of the kind Init
\* starts from)
AggRerun ==
    /\ gPc \in {"returned", "stopped"}
    /\ ~LoadDone
    /\ gRun < MaxRuns
    /\ gRun' = gRun + 1
    /\ gPc' = "read_unity"
    /\ gUnity' = EmptyDF
    /\ gMint' = EmptyDF
    /\ gAf' = EmptyDF
    /\ gMerged' = EmptyDF
    /\ gPay' = EmptyDF
    /\ gFinal' = EmptyDF
    /\ gTrace' = <<>>
    /\ gFailed' = "none"
    /\ UNCHANGED <<gSheet, bq_table>>
    /\ UNCHANGED <<varsMint, varsUnity, varsAF>>

NextAggRuns ==
    \/ NextAgg
    \/ AggStop
    \/ AggRerun

\* runs of the merge job that can be killed, and the runs that follow them
SpecAggRuns == InitAgg /\ [][NextAggRuns]_vars

\* merged rows process_cpa can be handed: a network row without attribution,
\* a joined row, and a row of attribution alone whose day was backfilled
MergedRows ==
    { n @@ AfMissing : n \in AggNetRows }
    \cup { [n @@ a EXCEPT !.key_af = n.key_network] :
             n \in AggNetRows,
             a \in [key_af : {NaN}, install_time : {Jan10}, app_id : {appX, appY},
                    media_source : {mediaY}, install_af : {Num(1)},
                    reg_af : {Num(0)}] }
    \cup { [key_network |-> NaN, day |-> t, spend |-> NumNaN,
            key_af |-> strftime_iso(t) \o <<"c">>, install_time |-> t,
            app_id |-> appX, media_source |-> mediaY, install_af |-> Num(1),
            reg_af |-> Num(1)] : t \in {Jan10, [y |-> 2024, m |-> 2, d |-> 3]} }

\* save_to_bigquery up to process_cpa, on every sheet of at most MaxSheetRows
\* rows and every merged frame of 1..MaxMergedRows rows
InitCpa ==
    /\ gPc = "fetch_payouts"
    /\ gUnity = EmptyDF
    /\ gMint = EmptyDF
    /\ gAf = EmptyDF
    /\ gMerged \in Frames(MergedRows, MaxMergedRows) \ {EmptyDF}
    /\ gSheet \in Frames(SheetRows, MaxSheetRows)
    /\ gPay = EmptyDF
    /\ gFinal = EmptyDF
    /\ gTrace = <<>>
    /\ gFailed = "none"
    /\ gRun = 1
    /\ bq_table = <<>>
    /\ IdleMint
    /\ IdleUnity
    /\ IdleAF

NextCpa ==
    \/ AggFetchPayouts
    \/ AggProcessCpa

SpecCpa == InitCpa /\ [][NextCpa]_vars

----------------------------------------------------------------------------
(* Properties *)

\* C1: window replace is idempotent: when a run of an ingest job ends and the
\* upstream answered it exactly as it answered the previous run (same window),
\* every table the job writes holds the rows it held after the previous run.
\* Stated for fetch_and_save (the Mintegral and AppsFlyer jobs end a run that
\* fails to insert with their tables as they were).
C1_WindowReplaceIdempotent ==
    (uPc = "done" /\ uRun >= 2 /\ uResp = uPrevResp)
        => <<raw_ru_unity_sites_liga_betboom_pari, raw_unity>> = uSnap

\* C2: partial success: when the GETs of some but not all application ids
\* answered non-200, process_and_save runs to its end and every row returned
\* for the other application ids that passes the event-name filter is in
\* raw_af_table afterwards.
C2_PartialSuccessPersists ==
    (aPc \in {"done", "raised"} /\ aFailed # {}
        /\ aFailed # {app_ids[k] : k \in 1..Len(app_ids)})
    => /\ aPc = "done"
       /\ \A r \in RowsOf(aEvents.rows \o aInstalls.rows) :
             (r.app_id \notin aFailed /\ event_name_replace(r.event_name) \in valid)
             => \E k \in 1..Len(raw_af_table) :
                   /\ raw_af_table[k].appsflyer_id = r.appsflyer_id
                   /\ raw_af_table[k].app_id = r.app_id
                   /\ raw_af_table[k].event_name = event_name_replace(r.event_name)

\* C3: in fetch_data every non-200 response and every malformed payload (HTTP
\* 200 with a JSON body that does not carry code 204, HTTP 200 with a blank
\* non-JSON body) makes the call return an empty frame at once, no request
\* following it; a non-empty frame is returned only for a non-blank non-JSON body.
C3_ErrorsReturnEmpty ==
    /\ mLast \in {"non200", "jsonOther", "jsonNonObject", "emptyText"}
          => (mPc = "returned" /\ mRet = EmptyDF)
    /\ (mPc = "returned" /\ mRet # EmptyDF) => mLast = "table"

\* C4: the poll loop has no attempt limit: a "not ready" answer is always
\* followed by another poll, the first other answer makes fetch_data return,
\* and so the call returns once the endpoint stops answering "not ready".
C4_ReturnsAtFirstAnswer ==
    /\ [][(mPc = "poll" /\ mLast' = "json204") => mPc' = "poll"]_vars
    /\ [][(mPc = "poll" /\ mLast' # "json204") => mPc' = "returned"]_vars
    /\ (mPc = "poll") ~> (mPc = "returned")

\* the two spellings of a letter
CasePairs ==
    { <<"c", "C">>, <<"l", "L">>, <<"i", "I">>, <<"n", "N">>, <<"e", "E">>,
      <<"t", "T">> }

SameLetter(a, b) == a = b \/ <<a, b>> \in CasePairs \/ <<b, a>> \in CasePairs

\* pat occurs in name in some letter case
OccursAnyCase(name, pat) ==
    /\ name # NaN
    /\ \E i \in 1..(Len(name) - Len(pat) + 1) :
          \A k \in 1..Len(pat) : SameLetter(name[i + k - 1], pat[k])

\* the rules, by position, whose pattern occurs in the name
MatchingRules(name) ==
    {k \in 1..Len(ClientRules) : OccursAnyCase(name, ClientRules[k].pattern)}

\* the label of the first (first = TRUE) or of the last rule whose pattern
\* occurs in the name, 'Other' when none does
RuleLabel(name, first) ==
    IF MatchingRules(name) = {} THEN "Other"
    ELSE ClientRules[CHOOSE k \in MatchingRules(name) :
                        \A j \in MatchingRules(name) :
                            IF first THEN k <= j ELSE k >= j].label

\* process_data classifies by RuleLabel: every row it returns carries the
\* label of its campaign name and none carries 'Other', and every report row
\* with a valid date whose name has a label is returned with that label
ClassifiesBy(first) ==
    mPc = "process" =>
        /\ \A j \in 1..Len(mDf1') :
              /\ mDf1'[j].client = RuleLabel(mDf1'[j].campaign_network, first)
              /\ mDf1'[j].client # "Other"
        /\ \A i \in 1..Len(mDf1) :
              (RuleLabel(mDf1[i].Offer, first) # "Other"
                  /\ to_datetime_Ymd(mDf1[i].Date) # NaT)
              => \E j \in 1..Len(mDf1') :
                    /\ mDf1'[j].campaign_network = mDf1[i].Offer
                    /\ mDf1'[j].site_network = mDf1[i].Sub
                    /\ mDf1'[j].client = RuleLabel(mDf1[i].Offer, first)

KeptAs(name, keepInstall) ==
    IF name \in {"register", "conversionStep_[1]_success"} THEN "register"
    ELSE IF name \in {"ftt", "ftd1"} THEN "deposit"
    ELSE IF name = "install" /\ keepInstall THEN "install"
    ELSE "dropped"

\* the transform of process_and_save has produced the processed frame
AfProcessed == aPc \in {"persist", "done"} \/ (aPc = "raised" /\ aDf.columns)

\* the processed frame holds the fetched rows under KeptAs: each row that is
\* kept is there under its new name, and each row there is a fetched row
\* under its new name
NormalizesBy(keepInstall) ==
    AfProcessed =>
        LET fetched == aEvents.rows \o aInstalls.rows
        IN  /\ \A i \in 1..Len(fetched) :
                  KeptAs(fetched[i].event_name, keepInstall) # "dropped"
                  => \E j \in 1..Len(aDf.rows) :
                        /\ aDf.rows[j].app_id = fetched[i].app_id
                        /\ aDf.rows[j].appsflyer_id = fetched[i].appsflyer_id
                        /\ aDf.rows[j].event_name
                              = KeptAs(fetched[i].event_name, keepInstall)
            /\ \A j \in 1..Len(aDf.rows) :
                  /\ aDf.rows[j].event_name # "dropped"
                  /\ \E i \in 1..Len(fetched) :
                        /\ aDf.rows[j].app_id = fetched[i].app_id
                        /\ aDf.rows[j].appsflyer_id = fetched[i].appsflyer_id
                        /\ aDf.rows[j].event_name
                              = KeptAs(fetched[i].event_name, keepInstall)

C7_KeyInjective ==
    uPc = "save" =>
        \A i, j \in 1..Len(uDf) :
            (uDf[i].key_network = uDf[j].key_network)
            <=> /\ uDf[i].day = uDf[j].day
                /\ uDf[i].campaign_network = uDf[j].campaign_network
                /\ uDf[i].site_network = uDf[j].site_network

\* the month a month cell of the sheet samples names
SheetMonth(text) ==
    CASE text = January -> 1
      [] text = <<"F", "E", "B">> -> 2

\* the amount a payout cell of the sheet samples states; a blank cell states 0
CellAmount(cell) ==
    CASE cell = <<>> -> 0
      [] cell = <<"1", "0">> -> 10
      [] cell = <<"2", "0">> -> 20

\* the cell is blank or a number
IsAmount(cell) == cell # <<"x">>

\* the positions of the sheet rows with the (app_id, media_source, month) of
\* the merged row r
SheetMatches(r) ==
    {k \in 1..Len(gSheet) :
        /\ gSheet[k].app_id = r.app_id
        /\ gSheet[k].media_source = r.media_source
        /\ r.day # NaT
        /\ SheetMonth(gSheet[k].month) = r.day.m}

\* C8: the payout lookup of process_cpa is total with default 0: for every row
\* of the frame process_cpa returns, cpa is the payout of the one sheet row with
\* the row's (app_id, media_source, month) when there is one, 0 when no sheet
\* row has that key, 0 when the matching sheet row has a blank payout cell;
\* cpa is never NaN.
C8_PayoutLookupTotal ==
    \A i \in 1..Len(gFinal) :
        LET r == gFinal[i]
            M == SheetMatches(r)
        IN  /\ ~r.cpa.nan
            /\ M = {} => r.cpa = Num(0)
            /\ \A k \in M :
                  (M = {k} /\ IsAmount(gSheet[k].payout))
                  => r.cpa = Num(CellAmount(gSheet[k].payout))

\* process_cpa has given cpa 0 to a row whose only sheet row has a blank payout,
\* on a sheet that also states an amount
C8_Witness ==
    /\ gPc = "delete"
    /\ \E i \in 1..Len(gFinal) : \E k \in 1..Len(gSheet) :
          /\ SheetMatches(gFinal[i]) = {k}
          /\ gSheet[k].payout = <<>>
          /\ gFinal[i].cpa = Num(0)
    /\ \E k \in 1..Len(gSheet) : gSheet[k].payout = <<"1", "0">>

\* C9: the payout tie-break is last-row-wins: a row of the frame process_cpa
\* returns whose (app_id, media_source, month) several sheet rows carry has the
\* payout of the last of them in sheet order.
C9_LastRowWins ==
    \A i \in 1..Len(gFinal) :
        LET r == gFinal[i]
            M == SheetMatches(r)
        IN  M # {} =>
                LET last == CHOOSE k \in M : \A j \in M : j <= k
                IN  IsAmount(gSheet[last].payout)
                    => r.cpa = Num(CellAmount(gSheet[last].payout))

\* two sheet rows carry the key of a merged row, with payouts 10 then 20, and
\* the row's cpa is 20
C9_Witness ==
    /\ gPc = "delete"
    /\ \E i \in 1..Len(gFinal) :
          /\ SheetMatches(gFinal[i]) = {1, 2}
          /\ gSheet[1].payout = <<"1", "0">>
          /\ gSheet[2].payout = <<"2", "0">>
          /\ gFinal[i].cpa = Num(20)

\* the run in which the handler of run, once entered, completes
LiveSpecAgg == SpecAgg /\ WF_vars(AggCatch)

\* C10: run never propagates a failure: when a step of fetch_data or of
\* save_to_bigquery raises, control is in the handler of run or run has
\* returned, the failing step is the last step of the run, the handler's only
\* move is the return, which runs no step and leaves the warehouse table as it
\* is, and the run does return.
C10_RunSwallowsFailure ==
    /\ [](gFailed # "none" =>
            /\ gPc \in {"except", "returned"}
            /\ gTrace[Len(gTrace)] = gFailed)
    /\ [][gFailed # "none" =>
            /\ gPc = "except"
            /\ gPc' = "returned"
            /\ gTrace' = gTrace
            /\ bq_table' = bq_table]_vars
    /\ (gFailed # "none" ~> gPc = "returned")

\* the load raised after the delete emptied the window, and run has returned
C10_Witness ==
    /\ gFailed = "load"
    /\ gPc = "returned"
    /\ gTrace = AggSteps
    /\ bq_table # <<>>

\* no two rows of the frame df have the same key_network (a missing key is
\* the key of no other row)
KeysDistinct(df) ==
    \A i, j \in 1..Len(df) :
        (i # j /\ df[i].key_network # NaN) => df[i].key_network # df[j].key_network

\* C11: stored network records have unique keys: the frame handed to
\* save_to_database (the concatenation of the two processed account frames in
\* process_and_save of the Mintegral job, the processed frame in fetch_and_save
\* of the Unity job) holds no two rows with the same key_network.
C11_StoredKeysUnique ==
    /\ mPc = "save" => KeysDistinct(mDf1 \o mDf2)
    /\ uPc = "save" => KeysDistinct(uDf)

\* the rows of a keyed table whose day lies in the two-day window of the run
UnityWindowRows(table) ==
    {r \in table : r.day \in {strftime_iso(DaysAgo(2)), strftime_iso(DaysAgo(1))}}

\* C12: the Unity ingest replaces its window in the raw table: when a run of
\* fetch_and_save whose report held a positive-spend row has ended, the rows of
\* raw_ru_unity_sites_liga_betboom_pari with day in [start_date, end_date] are
\* exactly the processed rows of that run.
C12_UnityWindowReplaced ==
    (uPc = "done" /\ uDf # EmptyDF)
        => UnityWindowRows(raw_ru_unity_sites_liga_betboom_pari) = RowsOf(uDf)

\* C14: the window replace of a raw table is all or nothing in every ingest
\* job: the step that saves a frame either leaves the raw table with the rows
\* it had, or leaves it without the old rows of the window and with every row
\* of the frame; it never takes old rows of the window away without putting the
\* rows of the frame in.
C14_WindowReplaceAtomic ==
    [][/\ mPc = "save" =>
            \/ raw_mint' = raw_mint
            \/ RowsOf(mDf1 \o mDf2) \subseteq raw_mint'
       /\ uPc = "save" =>
            \/ raw_ru_unity_sites_liga_betboom_pari'
                   = raw_ru_unity_sites_liga_betboom_pari
            \/ RowsOf(uDf) \subseteq raw_ru_unity_sites_liga_betboom_pari'
       /\ aPc = "persist" =>
            \/ raw_af_table' = raw_af_table
            \/ RowsOf(aDf.rows) \subseteq RowsOf(raw_af_table')]_vars

\* the warehouse table holds no row with day in the 40 days up to today
WindowEmpty(table) ==
    \A k \in 1..Len(table) :
        ~(/\ table[k].day # NaT
          /\ DateLE([y |-> 2023, m |-> 12, d |-> 2], table[k].day)
          /\ DateLE(table[k].day, [y |-> 2024, m |-> 1, d |-> 11]))

\* the delete of the current run has completed
DeleteDone == gFailed # "delete" /\ \E k \in 1..Len(gTrace) : gTrace[k] = "delete"

\* C13: in save_to_bigquery the window delete completes before the load and
\* the two are not atomic: a load completes only in a run whose delete has
\* completed; while the delete of a run is done and its load is not (the load
\* raised, or the run was killed), the destination table has no row of the
\* 40-day window, and a table without rows of the window gets one only by a
\* load that completes. With an empty frame the run returns from the merge
\* without the payout fetch, the delete or the load, and only a delete or a
\* load changes the destination table.
C13_DeleteThenLoad ==
    /\ []((DeleteDone /\ ~LoadDone) => WindowEmpty(bq_table))
    /\ [](LoadDone => DeleteDone)
    /\ [](gMerged = EmptyDF =>
            \A k \in 1..Len(gTrace) :
                gTrace[k] \notin {"fetch_payouts", "process_cpa", "delete", "load"})
    /\ [][/\ (WindowEmpty(bq_table) /\ ~WindowEmpty(bq_table'))
                => (gPc = "load" /\ LoadDone')
          /\ bq_table' # bq_table => (gPc \in {"delete", "load"} /\ gMerged # EmptyDF)
          /\ (gPc = "merge" /\ gPc' \notin {"except", "stopped"}
                  /\ gMerged' = EmptyDF)
                => (gPc' = "returned" /\ bq_table' = bq_table)]_vars

\* a run was killed or failed after its delete had emptied the window, and the
\* run that follows it has reached its own delete with the window still empty
C13_Witness ==
    /\ gRun = 2
    /\ gPc = "delete"
    /\ bq_table = <<BqOldRows[2]>>

====
